---- MODULE Spec2Model ----
(***************************************************************************)
(* Model of openmp_multi_cuda.c: a driver that creates one CUDA context    *)
(* per device, runs nticks steps of pattern2d on every device (an OpenMP   *)
(* parallel for) next to one host reference step, reads the results back   *)
(* and compares every device tile with the host reference tile.            *)
(*                                                                         *)
(* The CUDA driver/runtime calls are external.  Every call either succeeds *)
(* with the effect the CUDA documentation gives it, or returns a non-zero  *)
(* status from ErrCodes and has no effect.  cuCtxCreate makes the new      *)
(* context current on the calling thread; cuCtxDestroy of the context that *)
(* is current on the calling thread also pops it.                          *)
(***************************************************************************)
EXTENDS Integers, Sequences, FiniteSets, TLC

\* ---- bounds of the model ------------------------------------------------
MaxDevices == 2
MaxTicks == 2
MaxThreads == 2
MaxErr == 2
MaxSeed == 1
nx == 2
ny == 2

np == nx * ny

Devices == 0 .. (MaxDevices - 1)
Threads == 0 .. (MaxThreads - 1)
Tiles == 0 .. (MaxDevices + 1)
ErrCodes == 1 .. MaxErr
Cells == 1 .. np

\* Contents of memory that was allocated and never written.
Undef == << >>
\* Value of a config_t field that malloc left unset; the program never reads
\* such a field before writing it.
Unset == 0 - 1

VARIABLES
    pc,          \* position of the initial thread in main
    ret,         \* value returned by main (Unset while running)
    nticks,      \* global nticks
    ndevices,    \* main: ndevices
    nthreads,    \* size of the OpenMP team
    idevice,     \* main: index of the for loop in progress
    tick,        \* main: i of the loop of line 197
    inout,       \* host workspace, tile by tile
    control,     \* main: control, as the index of the tile it points to
    input,       \* main: input, as the index of the tile it points to
    cfg_step,    \* configs[d].step
    cfg_status,  \* configs[d].status
    cfg_ctx,     \* configs[d].ctx, a context handle
    cfg_in,      \* configs[d].in_dev, as the slot of the device buffer
    cfg_out,     \* configs[d].out_dev
    dmem,        \* contents of the device buffers: dmem[d][slot]
    nalloc,      \* nalloc[d][slot]: successful cudaMalloc calls
    nfree,       \* nfree[d][slot]: successful cudaFree calls
    ncreate,     \* ncreate[d]: successful cuCtxCreate calls
    ndestroy,    \* ndestroy[d]: successful cuCtxDestroy calls
    stack,       \* per-thread stack of current contexts, top first
    wpc,         \* position of each team thread inside thread_func
    wdev,        \* the loop iteration (device) a team thread is executing
    dsched,      \* state of each iteration of the parallel for of this tick
    secs,        \* sections of this tick that have been executed
    out,         \* stdout, line by line
    seed0,       \* the seeded tile 0 (history)
    devStarted,  \* thread_func calls started per device (history)
    devFinished, \* thread_func calls returned per device (history)
    hostStarted, \* pattern2d_cpu calls started (history)
    hostFinished,\* host reference steps completed (history)
    stepAtCall,  \* configs[d].step when the last call for d started (history)
    lastRet,     \* return value of the last thread_func call for d (history)
    lastFail,    \* which operation failed in the last call for d (history)
    failedTick,  \* tick (1-based) of the first failed device step, 0 if none
    kfail,       \* << d, k >>: pattern2d_gpu failed on device d in tick k (history)
    cpuIn,       \* tile the last pattern2d_cpu call read (history)
    cpuOut       \* tile the last pattern2d_cpu call wrote (history)

vars == << pc, ret, nticks, ndevices, nthreads, idevice, tick, inout, control,
           input, cfg_step, cfg_status, cfg_ctx, cfg_in, cfg_out, dmem, nalloc,
           nfree, ncreate, ndestroy, stack, wpc, wdev, dsched, secs, out,
           seed0, devStarted, devFinished, hostStarted, hostFinished,
           stepAtCall, lastRet, lastFail, failedTick, kfail, cpuIn, cpuOut >>

cfgVars == << cfg_step, cfg_status, cfg_ctx, cfg_in, cfg_out >>
devVars == << dmem, nalloc, nfree, ncreate, ndestroy >>
teamVars == << wpc, wdev, dsched >>
cpuHist == << cpuIn, cpuOut >>
histVars == << devStarted, devFinished, hostStarted, hostFinished,
               stepAtCall, lastRet, lastFail, failedTick, kfail, cpuHist >>
hostVars == << inout, control, input, seed0 >>
loopVars == << nticks, ndevices, nthreads, tick, secs >>

\* ---- helpers --------------------------------------------------------------

\* Handle of the context cuCtxCreate returns for device d.
CtxOf(d) == d + 1

\* One line of stdout.
Line(kind, a, b, c, e) == << kind, a, b, c, e >>

\* rand() * invdrandmax for cell k, the generator started from seed s.
Rand(s, k) == (s + k) % (MaxSeed + 2)

\* The update both pattern2d_gpu and pattern2d_cpu compute: out = in + 1.
pattern2d(tile) == [k \in Cells |-> tile[k] + 1]

RECURSIVE Iterate(_, _)
Iterate(tile, n) == IF n = 0 THEN tile ELSE Iterate(pattern2d(tile), n - 1)

\* The current context of thread t (0 if none).
Current(t) == IF stack[t] = << >> THEN 0 ELSE Head(stack[t])

\* a push that puts the context under the ones already on the stack
PushStack_Bottom(s, c) == s \o << c >>

\* cuCtxPushCurrent / cuCtxPopCurrent on a thread's stack.
PushStack(s, c) == << c >> \o s
PopStack(s) == Tail(s)

\* Swap of two pointers through a temporary.
SwapPair(a, b) == << b, a >>

\* return of a non-zero status from main
ExitWith(status) == /\ ret' = status
                    /\ pc' = "exit"

Abs(x) == IF x < 0 THEN 0 - x ELSE x

\* ---- initial state --------------------------------------------------------

Init ==
    /\ pc = "start"
    /\ ret = Unset
    /\ nticks \in 0 .. MaxTicks
    /\ ndevices = 0
    /\ nthreads = 1
    /\ idevice = 0
    /\ tick = 0
    /\ inout = [t \in Tiles |-> Undef]
    /\ control = 0
    /\ input = 0
    /\ cfg_step = [d \in Devices |-> Unset]
    /\ cfg_status = [d \in Devices |-> Unset]
    /\ cfg_ctx = [d \in Devices |-> 0]
    /\ cfg_in = [d \in Devices |-> Unset]
    /\ cfg_out = [d \in Devices |-> Unset]
    /\ dmem = [d \in Devices |-> [s \in 0 .. 1 |-> Undef]]
    /\ nalloc = [d \in Devices |-> [s \in 0 .. 1 |-> 0]]
    /\ nfree = [d \in Devices |-> [s \in 0 .. 1 |-> 0]]
    /\ ncreate = [d \in Devices |-> 0]
    /\ ndestroy = [d \in Devices |-> 0]
    /\ stack = [t \in Threads |-> << >>]
    /\ wpc = [t \in Threads |-> "idle"]
    /\ wdev = [t \in Threads |-> 0]
    /\ dsched = [d \in Devices |-> "done"]
    /\ secs = {}
    /\ out = << >>
    /\ seed0 = Undef
    /\ devStarted = [d \in Devices |-> 0]
    /\ devFinished = [d \in Devices |-> 0]
    /\ hostStarted = 0
    /\ hostFinished = 0
    /\ stepAtCall = [d \in Devices |-> 0]
    /\ lastRet = [d \in Devices |-> 0]
    /\ lastFail = [d \in Devices |-> "none"]
    /\ failedTick = 0
    /\ kfail = {}
    /\ cpuIn = Unset
    /\ cpuOut = Unset

\* ---- main: discovery and host workspace -----------------------------------

\* a driver that goes on when no device was found
GetDeviceCount_NoReturn ==
    /\ pc = "start"
    /\ \/ \E e \in ErrCodes :
            /\ ExitWith(e)
            /\ UNCHANGED << ndevices, out >>
       \/ \E n \in 0 .. MaxDevices :
            /\ ndevices' = n
            /\ out' = Append(out, Line("found", n, 0, 0, 0))
            /\ pc' = "omp"
            /\ ret' = ret
    /\ UNCHANGED << nticks, nthreads, idevice, tick, secs, hostVars, cfgVars,
                    devVars, stack, teamVars, histVars >>

\* lines 93-104
GetDeviceCount ==
    /\ pc = "start"
    /\ \/ \E e \in ErrCodes :
            /\ ExitWith(e)
            /\ UNCHANGED << ndevices, out >>
       \/ \E n \in 0 .. MaxDevices :
            /\ ndevices' = n
            /\ out' = Append(out, Line("found", n, 0, 0, 0))
            /\ IF n = 0 THEN ExitWith(0)
                        ELSE pc' = "omp" /\ ret' = ret
    /\ UNCHANGED << nticks, nthreads, idevice, tick, secs, hostVars, cfgVars,
                    devVars, stack, teamVars, histVars >>

\* lines 107-114
OmpThreads ==
    /\ pc = "omp"
    /\ \E p \in 1 .. MaxThreads :
         /\ nthreads' = p
         /\ out' = Append(out, Line("threads", p, 0, 0, 0))
    /\ pc' = "seed"
    /\ UNCHANGED << ret, nticks, ndevices, idevice, tick, secs, hostVars,
                    cfgVars, devVars, stack, teamVars, histVars >>

\* a replication loop that stops one tile early (i < ndevices)
Replicate_Short(io, n) ==
    [t \in DOMAIN io |-> IF t >= 1 /\ t <= n THEN io[0] ELSE io[t]]

\* lines 123-124: memcpy of tile 0 over tiles 1 .. n+1
RECURSIVE Replicate(_, _)
Replicate(io, n) ==
    IF n < 0 THEN io
    ELSE [Replicate(io, n - 1) EXCEPT ![n + 1] = io[0]]

\* lines 118-129
Seed ==
    /\ pc = "seed"
    /\ \E s \in 0 .. MaxSeed :
         LET tile0 == [k \in Cells |-> Rand(s, k)]
         IN /\ inout' = Replicate([inout EXCEPT ![0] = tile0], ndevices)
            /\ seed0' = tile0
    /\ idevice' = 0
    /\ pc' = "init_get"
    /\ UNCHANGED << ret, nticks, ndevices, nthreads, tick, secs, control,
                    input, cfgVars, devVars, stack, teamVars, out, histVars >>

\* ---- main: per-device initialization (lines 131-192) ----------------------

\* lines 133-146
InitGet ==
    /\ pc = "init_get"
    /\ cfg_step' = [cfg_step EXCEPT ![idevice] = 0]
    /\ \/ \E e \in ErrCodes : ExitWith(e)
       \/ pc' = "init_create" /\ ret' = ret
    /\ UNCHANGED << loopVars, idevice, hostVars, cfg_status, cfg_ctx, cfg_in,
                    cfg_out, devVars, stack, teamVars, out, histVars >>

\* lines 148-154: cuCtxCreate stores the handle and pushes the new context
InitCreate ==
    /\ pc = "init_create"
    /\ \/ /\ \E e \in ErrCodes : ExitWith(e)
          /\ UNCHANGED << cfg_ctx, ncreate, stack >>
       \/ /\ cfg_ctx' = [cfg_ctx EXCEPT ![idevice] = CtxOf(idevice)]
          /\ ncreate' = [ncreate EXCEPT ![idevice] = @ + 1]
          /\ stack' = [stack EXCEPT ![0] = PushStack(@, CtxOf(idevice))]
          /\ pc' = "init_malloc_in"
          /\ ret' = ret
    /\ UNCHANGED << loopVars, idevice, hostVars, cfg_step, cfg_status, cfg_in,
                    cfg_out, dmem, nalloc, nfree, ndestroy, teamVars, out,
                    histVars >>

\* lines 157-163: the buffer is allocated in the current context
InitMallocIn ==
    /\ pc = "init_malloc_in"
    /\ \/ /\ \E e \in ErrCodes : ExitWith(e)
          /\ UNCHANGED << cfg_in, nalloc >>
       \/ /\ Current(0) = CtxOf(idevice)
          /\ cfg_in' = [cfg_in EXCEPT ![idevice] = 0]
          /\ nalloc' = [nalloc EXCEPT ![idevice][0] = @ + 1]
          /\ pc' = "init_malloc_out"
          /\ ret' = ret
    /\ UNCHANGED << loopVars, idevice, hostVars, cfg_step, cfg_status, cfg_ctx,
                    cfg_out, dmem, nfree, ncreate, ndestroy, stack, teamVars,
                    out, histVars >>

\* lines 164-170
InitMallocOut ==
    /\ pc = "init_malloc_out"
    /\ \/ /\ \E e \in ErrCodes : ExitWith(e)
          /\ UNCHANGED << cfg_out, nalloc >>
       \/ /\ Current(0) = CtxOf(idevice)
          /\ cfg_out' = [cfg_out EXCEPT ![idevice] = 1]
          /\ nalloc' = [nalloc EXCEPT ![idevice][1] = @ + 1]
          /\ pc' = "init_memcpy"
          /\ ret' = ret
    /\ UNCHANGED << loopVars, idevice, hostVars, cfg_step, cfg_status, cfg_ctx,
                    cfg_in, dmem, nfree, ncreate, ndestroy, stack, teamVars,
                    out, histVars >>

\* lines 172-180: host tile idevice (config->inout_cpu) into in_dev
InitMemcpy ==
    /\ pc = "init_memcpy"
    /\ \/ /\ \E e \in ErrCodes : ExitWith(e)
          /\ UNCHANGED dmem
       \/ /\ Current(0) = CtxOf(idevice)
          /\ dmem' = [dmem EXCEPT ![idevice][cfg_in[idevice]] = inout[idevice]]
          /\ pc' = "init_pop"
          /\ ret' = ret
    /\ UNCHANGED << loopVars, idevice, hostVars, cfgVars, nalloc, nfree,
                    ncreate, ndestroy, stack, teamVars, out, histVars >>

\* lines 182-196: cuCtxPopCurrent(&config->ctx), the "initialized" line, the
\* loop increment and, after the last device, control and input
InitPop ==
    /\ pc = "init_pop"
    /\ \/ /\ \E e \in ErrCodes : ExitWith(e)
          /\ UNCHANGED << cfg_ctx, stack, out, idevice, control, input >>
       \/ /\ stack[0] # << >>
          /\ cfg_ctx' = [cfg_ctx EXCEPT ![idevice] = Head(stack[0])]
          /\ stack' = [stack EXCEPT ![0] = PopStack(@)]
          /\ out' = Append(out, Line("init", idevice, 0, 0, 0))
          /\ idevice' = idevice + 1
          /\ ret' = ret
          /\ IF idevice + 1 < ndevices
             THEN /\ pc' = "init_get"
                  /\ UNCHANGED << control, input >>
             ELSE /\ pc' = "loop"
                  /\ control' = ndevices
                  /\ input' = ndevices + 1
    /\ UNCHANGED << loopVars, inout, seed0, cfg_step, cfg_status, cfg_in,
                    cfg_out, devVars, teamVars, histVars >>

\* ---- thread_func (lines 48-89), one call per device and tick ---------------

\* the call returns status for device d on thread t; line 210 stores it
Return(t, d, status, what) ==
    /\ cfg_status' = [cfg_status EXCEPT ![d] = status]
    /\ dsched' = [dsched EXCEPT ![d] = "done"]
    /\ wpc' = [wpc EXCEPT ![t] = "idle"]
    /\ devFinished' = [devFinished EXCEPT ![d] = @ + 1]
    /\ lastRet' = [lastRet EXCEPT ![d] = status]
    /\ lastFail' = [lastFail EXCEPT ![d] = what]
    /\ failedTick' = IF status # 0 /\ failedTick = 0 THEN tick + 1
                                                     ELSE failedTick

\* lines 207-210 and 50-60: a team thread takes an iteration that no thread
\* has taken yet (any schedule of the parallel for) and pushes the context
TF_Push(t) ==
    /\ t < nthreads
    /\ wpc[t] = "idle"
    /\ \E d \in Devices :
         /\ d < ndevices
         /\ dsched[d] = "todo"
         /\ wdev' = [wdev EXCEPT ![t] = d]
         /\ devStarted' = [devStarted EXCEPT ![d] = @ + 1]
         /\ stepAtCall' = [stepAtCall EXCEPT ![d] = cfg_step[d]]
         /\ \/ /\ \E e \in ErrCodes :
                    /\ cfg_status' = [cfg_status EXCEPT ![d] = e]
                    /\ lastRet' = [lastRet EXCEPT ![d] = e]
               /\ dsched' = [dsched EXCEPT ![d] = "done"]
               /\ devFinished' = [devFinished EXCEPT ![d] = @ + 1]
               /\ lastFail' = [lastFail EXCEPT ![d] = "push"]
               /\ failedTick' = IF failedTick = 0 THEN tick + 1 ELSE failedTick
               /\ UNCHANGED << stack, wpc >>
            \/ /\ stack' = [stack EXCEPT ![t] = PushStack(@, cfg_ctx[d])]
               /\ dsched' = [dsched EXCEPT ![d] = "run"]
               /\ wpc' = [wpc EXCEPT ![t] = "kernel"]
               /\ UNCHANGED << cfg_status, devFinished, lastRet, lastFail,
                               failedTick >>
    /\ UNCHANGED << pc, ret, loopVars, idevice, hostVars, cfg_step, cfg_ctx,
                    cfg_in, cfg_out, devVars, out, hostStarted, hostFinished,
                    kfail, cpuHist >>

\* lines 62-70: pattern2d_gpu from in_dev to out_dev, then config->step++
TF_Kernel(t) ==
    /\ wpc[t] = "kernel"
    /\ LET d == wdev[t]
       IN \/ /\ \E e \in ErrCodes : Return(t, d, e, "kernel")
             /\ kfail' = kfail \cup {<< d, devStarted[d] >>}
             /\ UNCHANGED << dmem, cfg_step >>
          \/ /\ dmem' = [dmem EXCEPT ![d][cfg_out[d]] =
                                           pattern2d(dmem[d][cfg_in[d]])]
             /\ cfg_step' = [cfg_step EXCEPT ![d] = @ + 1]
             /\ wpc' = [wpc EXCEPT ![t] = "pop"]
             /\ UNCHANGED << cfg_status, dsched, devFinished, lastRet,
                             lastFail, failedTick, kfail >>
    /\ UNCHANGED << pc, ret, loopVars, idevice, hostVars, cfg_ctx, cfg_in,
                    cfg_out, nalloc, nfree, ncreate, ndestroy, stack, wdev,
                    out, devStarted, hostStarted, hostFinished, stepAtCall,
                    cpuHist >>

\* a thread_func that returns 0 without popping the context
TF_Pop_NoPop(t) ==
    /\ wpc[t] = "pop"
    /\ LET d == wdev[t]
       IN /\ cfg_in' = [cfg_in EXCEPT ![d] = cfg_out[d]]
          /\ cfg_out' = [cfg_out EXCEPT ![d] = cfg_in[d]]
          /\ out' = Append(out, Line("step", d, cfg_step[d], 0, 0))
          /\ Return(t, d, 0, "none")
    /\ UNCHANGED << pc, ret, loopVars, idevice, hostVars, cfg_step, cfg_ctx,
                    devVars, stack, wdev, devStarted, hostStarted,
                    hostFinished, stepAtCall, kfail, cpuHist >>

\* a thread_func that prints the step counter as it was before the increment
TF_Pop_PreIncrement(t) ==
    /\ wpc[t] = "pop"
    /\ LET d == wdev[t]
       IN \/ /\ \E e \in ErrCodes : Return(t, d, e, "pop")
             /\ UNCHANGED << cfg_ctx, cfg_in, cfg_out, stack, out >>
          \/ /\ stack[t] # << >>
             /\ cfg_ctx' = [cfg_ctx EXCEPT ![d] = Head(stack[t])]
             /\ stack' = [stack EXCEPT ![t] = PopStack(@)]
             /\ cfg_in' = [cfg_in EXCEPT ![d] = cfg_out[d]]
             /\ cfg_out' = [cfg_out EXCEPT ![d] = cfg_in[d]]
             /\ out' = Append(out, Line("step", d, cfg_step[d] - 1, 0, 0))
             /\ Return(t, d, 0, "none")
    /\ UNCHANGED << pc, ret, loopVars, idevice, hostVars, cfg_step, devVars,
                    wdev, devStarted, hostStarted, hostFinished, stepAtCall,
                    kfail, cpuHist >>

\* lines 72-88: cuCtxPopCurrent(&config->ctx), the buffer swap, the
\* "completed step" line and return 0
TF_Pop(t) ==
    /\ wpc[t] = "pop"
    /\ LET d == wdev[t]
       IN \/ /\ \E e \in ErrCodes : Return(t, d, e, "pop")
             /\ UNCHANGED << cfg_ctx, cfg_in, cfg_out, stack, out >>
          \/ /\ stack[t] # << >>
             /\ cfg_ctx' = [cfg_ctx EXCEPT ![d] = Head(stack[t])]
             /\ stack' = [stack EXCEPT ![t] = PopStack(@)]
             /\ cfg_in' = [cfg_in EXCEPT
                              ![d] = SwapPair(cfg_in[d], cfg_out[d])[1]]
             /\ cfg_out' = [cfg_out EXCEPT
                              ![d] = SwapPair(cfg_in[d], cfg_out[d])[2]]
             /\ out' = Append(out, Line("step", d, cfg_step[d], 0, 0))
             /\ Return(t, d, 0, "none")
    /\ UNCHANGED << pc, ret, loopVars, idevice, hostVars, cfg_step, devVars,
                    wdev, devStarted, hostStarted, hostFinished, stepAtCall,
                    kfail, cpuHist >>

\* ---- main: the step loop (lines 197-237) ----------------------------------

\* line 197: the loop test
LoopHead ==
    /\ pc = "loop"
    /\ IF tick < nticks THEN pc' = "sections" /\ secs' = {}
                        ELSE pc' = "lastswap" /\ secs' = secs
    /\ UNCHANGED << ret, nticks, ndevices, nthreads, tick, idevice, hostVars,
                    cfgVars, devVars, stack, teamVars, out, histVars >>

\* lines 199-212: the sections construct is not inside a parallel region, so
\* its team is the initial thread alone, which executes the two sections one
\* after the other in an order the implementation chooses.  Entering the GPU
\* section forks the team of the parallel for.
GpuSectionStart ==
    /\ pc = "sections"
    /\ "gpu" \notin secs
    /\ dsched' = [d \in Devices |-> IF d < ndevices THEN "todo" ELSE "done"]
    /\ pc' = "gpu"
    /\ UNCHANGED << ret, loopVars, idevice, hostVars, cfgVars, devVars, stack,
                    wpc, wdev, out, histVars >>

\* a join that waits for one iteration only
AllJoined_Any == \E d \in Devices : d < ndevices /\ dsched[d] = "done"

\* the implicit barrier that ends the parallel for
AllJoined == \A d \in Devices : dsched[d] = "done"

\* line 211-212: join of the parallel for, end of the GPU section
GpuSectionEnd ==
    /\ pc = "gpu"
    /\ AllJoined
    /\ secs' = secs \cup {"gpu"}
    /\ pc' = "sections"
    /\ UNCHANGED << ret, nticks, ndevices, nthreads, tick, idevice, hostVars,
                    cfgVars, devVars, stack, teamVars, out, histVars >>

\* lines 215-220: the initial thread enters the CPU section and calls
\* pattern2d_cpu
CpuSectionStart ==
    /\ pc = "sections"
    /\ "cpu" \notin secs
    /\ hostStarted' = hostStarted + 1
    /\ pc' = "cpu"
    /\ UNCHANGED << ret, loopVars, idevice, hostVars, cfgVars, devVars, stack,
                    teamVars, out, devStarted, devFinished, hostFinished,
                    stepAtCall, lastRet, lastFail, failedTick, kfail, cpuHist >>

\* a host step that writes its output over tile 0 of the workspace
CpuSectionEnd_Tile0 ==
    /\ pc = "cpu"
    /\ inout' = [inout EXCEPT ![0] = pattern2d(inout[input])]
    /\ control' = SwapPair(control, input)[1]
    /\ input' = SwapPair(control, input)[2]
    /\ hostFinished' = hostFinished + 1
    /\ cpuIn' = input
    /\ cpuOut' = control
    /\ secs' = secs \cup {"cpu"}
    /\ pc' = "sections"
    /\ UNCHANGED << ret, nticks, ndevices, nthreads, tick, idevice, seed0,
                    cfgVars, devVars, stack, teamVars, out, devStarted,
                    devFinished, hostStarted, stepAtCall, lastRet, lastFail,
                    failedTick, kfail >>

\* a host step that does not swap control and input
CpuSectionEnd_NoSwap ==
    /\ pc = "cpu"
    /\ inout' = [inout EXCEPT ![control] = pattern2d(inout[input])]
    /\ UNCHANGED << control, input >>
    /\ hostFinished' = hostFinished + 1
    /\ cpuIn' = input
    /\ cpuOut' = control
    /\ secs' = secs \cup {"cpu"}
    /\ pc' = "sections"
    /\ UNCHANGED << ret, nticks, ndevices, nthreads, tick, idevice, seed0,
                    cfgVars, devVars, stack, teamVars, out, devStarted,
                    devFinished, hostStarted, stepAtCall, lastRet, lastFail,
                    failedTick, kfail >>

\* lines 219-224: pattern2d_cpu has read input and written control (its
\* status is discarded), then the two pointers are swapped
CpuSectionEnd ==
    /\ pc = "cpu"
    /\ inout' = [inout EXCEPT ![control] = pattern2d(inout[input])]
    /\ control' = SwapPair(control, input)[1]
    /\ input' = SwapPair(control, input)[2]
    /\ hostFinished' = hostFinished + 1
    /\ cpuIn' = input
    /\ cpuOut' = control
    /\ secs' = secs \cup {"cpu"}
    /\ pc' = "sections"
    /\ UNCHANGED << ret, nticks, ndevices, nthreads, tick, idevice, seed0,
                    cfgVars, devVars, stack, teamVars, out, devStarted,
                    devFinished, hostStarted, stepAtCall, lastRet, lastFail,
                    failedTick, kfail >>

\* line 225: the barrier that ends the sections construct
SectionsEnd ==
    /\ pc = "sections"
    /\ secs = {"gpu", "cpu"}
    /\ pc' = "check"
    /\ idevice' = 0
    /\ UNCHANGED << ret, loopVars, hostVars, cfgVars, devVars, stack,
                    teamVars, out, histVars >>

\* a driver that reports every failure as exit status 1
AbortStatus_One(status) == 1

\* line 234: the value main returns for a failed device
AbortStatus(status) == status

\* a status loop that never aborts the run
CheckStatus_Ignore ==
    /\ pc = "check"
    /\ idevice' = idevice + 1
    /\ ret' = ret
    /\ IF idevice + 1 < ndevices
       THEN pc' = "check" /\ tick' = tick
       ELSE pc' = "loop" /\ tick' = tick + 1
    /\ UNCHANGED << nticks, ndevices, nthreads, secs, hostVars, cfgVars,
                    devVars, stack, teamVars, out, histVars >>

\* lines 227-237: one iteration of the status loop; after the last device
\* the tick ends
CheckStatus ==
    /\ pc = "check"
    /\ IF cfg_status[idevice] # 0
       THEN /\ ExitWith(AbortStatus(cfg_status[idevice]))
            /\ UNCHANGED << idevice, tick >>
       ELSE /\ idevice' = idevice + 1
            /\ ret' = ret
            /\ IF idevice + 1 < ndevices
               THEN pc' = "check" /\ tick' = tick
               ELSE pc' = "loop" /\ tick' = tick + 1
    /\ UNCHANGED << nticks, ndevices, nthreads, secs, hostVars, cfgVars,
                    devVars, stack, teamVars, out, histVars >>

\* a driver without the last swap
LastSwap_Missing ==
    /\ pc = "lastswap"
    /\ idevice' = 0
    /\ pc' = "fin_push"
    /\ UNCHANGED << ret, loopVars, hostVars, cfgVars, devVars, stack,
                    teamVars, out, histVars >>

\* lines 239-244: last swap on the CPU thread
LastSwap ==
    /\ pc = "lastswap"
    /\ control' = SwapPair(control, input)[1]
    /\ input' = SwapPair(control, input)[2]
    /\ idevice' = 0
    /\ pc' = "fin_push"
    /\ UNCHANGED << ret, loopVars, inout, seed0, cfgVars, devVars, stack,
                    teamVars, out, histVars >>

\* ---- main: release of the devices (lines 246-294) --------------------------

\* lines 249-259
FinPush ==
    /\ pc = "fin_push"
    /\ \/ /\ \E e \in ErrCodes : ExitWith(e)
          /\ UNCHANGED stack
       \/ /\ stack' = [stack EXCEPT ![0] = PushStack(@, cfg_ctx[idevice])]
          /\ pc' = "fin_memcpy"
          /\ ret' = ret
    /\ UNCHANGED << loopVars, idevice, hostVars, cfgVars, devVars, teamVars,
                    out, histVars >>

\* lines 261-269: in_dev back into host tile idevice (config->inout_cpu)
FinMemcpy ==
    /\ pc = "fin_memcpy"
    /\ \/ /\ \E e \in ErrCodes : ExitWith(e)
          /\ UNCHANGED inout
       \/ /\ Current(0) # 0
          /\ inout' = [inout EXCEPT ![idevice] = dmem[idevice][cfg_in[idevice]]]
          /\ pc' = "fin_free_in"
          /\ ret' = ret
    /\ UNCHANGED << loopVars, idevice, control, input, seed0, cfgVars, devVars,
                    stack, teamVars, out, histVars >>

\* a release loop that forgets to free the input buffer
FinFreeIn_Skip ==
    /\ pc = "fin_free_in"
    /\ \/ \E e \in ErrCodes : ExitWith(e)
       \/ /\ Current(0) # 0
          /\ pc' = "fin_free_out"
          /\ ret' = ret
    /\ UNCHANGED << loopVars, idevice, hostVars, cfgVars, devVars, stack,
                    teamVars, out, histVars >>

\* lines 271-277
FinFreeIn ==
    /\ pc = "fin_free_in"
    /\ \/ /\ \E e \in ErrCodes : ExitWith(e)
          /\ UNCHANGED nfree
       \/ /\ Current(0) # 0
          /\ nfree' = [nfree EXCEPT ![idevice][cfg_in[idevice]] = @ + 1]
          /\ pc' = "fin_free_out"
          /\ ret' = ret
    /\ UNCHANGED << loopVars, idevice, hostVars, cfgVars, dmem, nalloc,
                    ncreate, ndestroy, stack, teamVars, out, histVars >>

\* lines 278-284
FinFreeOut ==
    /\ pc = "fin_free_out"
    /\ \/ /\ \E e \in ErrCodes : ExitWith(e)
          /\ UNCHANGED nfree
       \/ /\ Current(0) # 0
          /\ nfree' = [nfree EXCEPT ![idevice][cfg_out[idevice]] = @ + 1]
          /\ pc' = "fin_destroy"
          /\ ret' = ret
    /\ UNCHANGED << loopVars, idevice, hostVars, cfgVars, dmem, nalloc,
                    ncreate, ndestroy, stack, teamVars, out, histVars >>

\* lines 286-294: cuCtxDestroy(config->ctx) without a pop before it; the
\* destroyed context leaves the stack of the calling thread when it is the
\* current one.  Then the "deinitialized" line and the loop increment.
FinDestroy ==
    /\ pc = "fin_destroy"
    /\ \/ /\ \E e \in ErrCodes : ExitWith(e)
          /\ UNCHANGED << ndestroy, stack, out, idevice >>
       \/ /\ ndestroy' = [ndestroy EXCEPT ![cfg_ctx[idevice] - 1] = @ + 1]
          /\ stack' = [stack EXCEPT ![0] =
                          IF Current(0) = cfg_ctx[idevice] THEN PopStack(@)
                                                           ELSE @]
          /\ out' = Append(out, Line("deinit", idevice, 0, 0, 0))
          /\ idevice' = IF idevice + 1 < ndevices THEN idevice + 1 ELSE 0
          /\ pc' = IF idevice + 1 < ndevices THEN "fin_push" ELSE "validate"
          /\ ret' = ret
    /\ UNCHANGED << loopVars, hostVars, cfgVars, dmem, nalloc, nfree, ncreate,
                    teamVars, histVars >>

\* ---- main: comparison with the host reference (lines 296-323) -------------

\* fabs(control[k] - tile[k]), k = i + j * nx counted from 1
Diff(c, t, k) == Abs(c[k] - t[k])

\* a scan that compares with >= and so keeps the last largest cell
RECURSIVE Scan_LastMax(_, _, _, _)
Scan_LastMax(c, t, k, best) ==
    IF k > np THEN best
    ELSE Scan_LastMax(c, t, k + 1,
                      IF Diff(c, t, k) >= best[1] THEN << Diff(c, t, k), k >>
                                                  ELSE best)

\* lines 302-315: the scan keeps the first cell with the largest difference;
\* best is << maxdiff, cell >>
RECURSIVE Scan(_, _, _, _)
Scan(c, t, k, best) ==
    IF k > np THEN best
    ELSE Scan(c, t, k + 1,
              IF Diff(c, t, k) > best[1] THEN << Diff(c, t, k), k >> ELSE best)

\* lines 300-317: << maxdiff, maxi, maxj >>
MaxDiff(c, t) ==
    LET best == Scan(c, t, 1, << Diff(c, t, 1), 1 >>)
    IN << best[1], (best[2] - 1) % nx, (best[2] - 1) \div nx >>

\* lines 297-318, one device per step
Validate ==
    /\ pc = "validate"
    /\ LET r == MaxDiff(inout[control], inout[idevice])
       IN out' = Append(out, Line("diff", idevice, r[1], r[2], r[3]))
    /\ idevice' = idevice + 1
    /\ pc' = IF idevice + 1 < ndevices THEN "validate" ELSE "finish"
    /\ UNCHANGED << ret, loopVars, hostVars, cfgVars, devVars, stack,
                    teamVars, histVars >>

\* lines 320-323
Finish ==
    /\ pc = "finish"
    /\ ExitWith(0)
    /\ UNCHANGED << loopVars, idevice, hostVars, cfgVars, devVars, stack,
                    teamVars, out, histVars >>

\* ---- specification --------------------------------------------------------

Next ==
    \/ GetDeviceCount
    \/ OmpThreads
    \/ Seed
    \/ InitGet
    \/ InitCreate
    \/ InitMallocIn
    \/ InitMallocOut
    \/ InitMemcpy
    \/ InitPop
    \/ LoopHead
    \/ GpuSectionStart
    \/ \E t \in Threads : TF_Push(t)
    \/ \E t \in Threads : TF_Kernel(t)
    \/ \E t \in Threads : TF_Pop(t)
    \/ GpuSectionEnd
    \/ CpuSectionStart
    \/ CpuSectionEnd
    \/ SectionsEnd
    \/ CheckStatus
    \/ LastSwap
    \/ FinPush
    \/ FinMemcpy
    \/ FinFreeIn
    \/ FinFreeOut
    \/ FinDestroy
    \/ Validate
    \/ Finish

Spec == Init /\ [][Next]_vars

TypeOK ==
    /\ ndevices \in 0 .. MaxDevices
    /\ nthreads \in 1 .. MaxThreads
    /\ tick \in 0 .. MaxTicks
    /\ control \in Tiles /\ input \in Tiles
    /\ \A d \in Devices : cfg_in[d] \in {Unset, 0, 1} /\ cfg_out[d] \in {Unset, 0, 1}
    /\ \A t \in Threads : wpc[t] \in {"idle", "kernel", "pop"}

\* ---- properties ------------------------------------------------------------

Range(s) == {s[i] : i \in DOMAIN s}

Active == {d \in Devices : d < ndevices}

\* the initialization of device d has completed
InitDone(d) == Line("init", d, 0, 0, 0) \in Range(out)

\* a "result abs max diff" line has been printed
DiffPrinted == \E i \in DOMAIN out : out[i][1] = "diff"

\* some thread has context c on its stack
OnStack(t, c) == c \in Range(stack[t])

\* the devices whose last call failed
FailedDevs == {d \in Active : lastRet[d] # 0}

\* C1: if a device step fails during some tick, the release loop still runs
\* before the program exits: every context that was created is destroyed,
\* its buffers are freed and "Device d deinitialized" is printed.
C1_FinalizerAfterStepFailure ==
    (pc = "exit" /\ failedTick # 0) =>
        \A d \in Active :
            ncreate[d] > 0 =>
                /\ ndestroy[d] = ncreate[d]
                /\ nfree[d][0] = nalloc[d][0]
                /\ nfree[d][1] = nalloc[d][1]
                /\ Line("deinit", d, 0, 0, 0) \in Range(out)

\* C2: once a device step has failed in tick k, no step of tick k+1 starts on
\* any device or on the host, no "result abs max diff" line is printed, and
\* the program exits with the status of the lowest-index failing device.
C2_AbortOnFailure ==
    failedTick # 0 =>
        /\ \A d \in Active : devStarted[d] <= failedTick
        /\ hostStarted <= failedTick
        /\ tick = failedTick - 1
        /\ pc \in {"sections", "gpu", "cpu", "check", "exit"}
        /\ ~DiffPrinted
        /\ pc = "exit" =>
             \E d \in FailedDevs :
                 /\ \A e \in FailedDevs : d <= e
                 /\ cfg_status[d] # 0
                 /\ ret = cfg_status[d]

\* C2 witness: both devices failed in tick 2 with different statuses and the
\* program has exited.
C2_Witness ==
    /\ pc = "exit"
    /\ failedTick = 2
    /\ ndevices = 2
    /\ FailedDevs = {0, 1}
    /\ cfg_status[0] # cfg_status[1]
    /\ ret = cfg_status[0]

\* C3: when the program exits, on every path, every context that was created
\* has been destroyed exactly once and every device buffer that was allocated
\* has been freed exactly once.
C3_ResourceHygiene ==
    pc = "exit" =>
        \A d \in Devices :
            /\ ncreate[d] <= 1
            /\ ndestroy[d] = ncreate[d]
            /\ \A s \in 0 .. 1 : nalloc[d][s] <= 1 /\ nfree[d][s] = nalloc[d][s]

\* the release loop has completed
Finalized ==
    \/ pc \in {"validate", "finish"}
    \/ pc = "exit" /\ ret = 0 /\ ndevices >= 1

\* C4: with the same update on devices and host and no failure, after the
\* release loop every device tile equals the update applied nticks times to
\* the seed tile and equals the control tile, and every reported difference
\* is 0.
C4_ResultsAgree ==
    Finalized =>
        /\ \A d \in Active :
             /\ inout[d] = Iterate(seed0, nticks)
             /\ inout[control] = inout[d]
             /\ MaxDiff(inout[control], inout[d])[1] = 0
        /\ \A i \in DOMAIN out : out[i][1] = "diff" => out[i][3] = 0

\* C4 witness: a run of two devices and two ticks has printed both
\* comparison lines and exited.
C4_Witness ==
    /\ pc = "exit"
    /\ ret = 0
    /\ ndevices = 2
    /\ nticks = 2
    /\ Line("diff", 1, 0, 0, 0) \in Range(out)

\* device d is initialized, no thread_func call for d is in progress and its
\* buffers are still allocated
AtRest(d) ==
    /\ InitDone(d)
    /\ dsched[d] # "run"
    /\ nfree[d][0] = 0 /\ nfree[d][1] = 0

\* C5: whenever no thread_func call for device d is in progress, in_dev holds
\* the update applied exactly config.step times to the seed.
C5_InDevMatchesStep ==
    \A d \in Active :
        AtRest(d) => dmem[d][cfg_in[d]] = Iterate(seed0, cfg_step[d])

\* C6: whenever a thread_func call fails, in each of the three failure cases,
\* the step counter equals its value before the call and the failure status
\* is stored in config.status.
C6_FailureKeepsStep ==
    \A d \in Active :
        (dsched[d] = "done" /\ lastRet[d] # 0) =>
            /\ cfg_step[d] = stepAtCall[d]
            /\ cfg_status[d] = lastRet[d]

\* C7: outside a thread_func call for device d (after its initialization,
\* between ticks, after the join, whether the call succeeded or failed) the
\* context of d is on no thread's stack.
C7_AtRestNotCurrent ==
    \A d \in Active :
        ( /\ InitDone(d)
          /\ dsched[d] # "run"
          /\ pc \in {"init_get", "init_create", "init_malloc_in",
                     "init_malloc_out", "init_memcpy", "init_pop", "loop",
                     "sections", "gpu", "cpu", "check", "lastswap"} )
        => \A t \in Threads : ~OnStack(t, CtxOf(d))

\* C8: no context is ever current on two threads at the same time.
C8_OneThreadPerContext ==
    \A d \in Devices :
        \A t1, t2 \in Threads :
            (OnStack(t1, CtxOf(d)) /\ OnStack(t2, CtxOf(d))) => t1 = t2

\* C8 witness: two threads are inside thread_func at the same time, each with
\* the context of its own device current.
C8_Witness ==
    /\ wpc[0] # "idle" /\ wpc[1] # "idle"
    /\ Current(0) = CtxOf(wdev[0])
    /\ Current(1) = CtxOf(wdev[1])
    /\ wdev[0] # wdev[1]
    /\ tick = 1

\* C9 (amended): no device step and no host step of tick k+1 starts before
\* every device step and the host step of tick k have completed; the status
\* loop runs only after both sections of the tick have ended; and at every
\* tick boundary at which every device status is zero all step counters
\* equal the number of completed host steps.
C9_Barrier ==
    /\ \A d, e \in Active : devStarted[d] <= devFinished[e] + 1
    /\ \A d \in Active : /\ devStarted[d] <= hostFinished + 1
                         /\ hostStarted <= devFinished[d] + 1
    /\ hostStarted <= hostFinished + 1
    /\ pc = "check" => /\ \A d \in Active : devFinished[d] = tick + 1
                       /\ hostFinished = tick + 1
    /\ ( \/ pc = "loop"
         \/ pc = "check" /\ \A d \in Active : cfg_status[d] = 0 )
       => \A d \in Active : cfg_step[d] = hostFinished

\* C9 witness: the boundary after the second tick, both devices at step 2.
C9_Witness ==
    /\ pc = "check"
    /\ ndevices = 2
    /\ hostFinished = 2
    /\ cfg_step[0] = 2 /\ cfg_step[1] = 2

\* C9 as stated: at every tick boundary, after the join, all device step
\* counters equal the number of completed host reference steps.
C9_Original ==
    pc = "check" => \A d \in Active : cfg_step[d] = hostFinished

\* C10: within a tick the two sections run in parallel, unordered: while a
\* device step is in progress the host step of the tick can start, and while
\* the host step is in progress a device step of the tick can start.
C10_SectionsUnordered ==
    /\ \A d \in Active :
         (dsched[d] = "run" /\ hostStarted = tick) => ENABLED CpuSectionStart
    /\ \A d \in Active :
         (pc = "cpu" /\ devStarted[d] = tick) =>
             ENABLED (\E t \in Threads : TF_Push(t))

\* main is inside the step loop
InLoop == pc \in {"loop", "sections", "gpu", "cpu", "check"}

\* this step writes a field of configs[d] or a buffer of device d
DevChanged(d) ==
    \/ cfg_step'[d] # cfg_step[d]
    \/ cfg_status'[d] # cfg_status[d]
    \/ cfg_ctx'[d] # cfg_ctx[d]
    \/ cfg_in'[d] # cfg_in[d]
    \/ cfg_out'[d] # cfg_out[d]
    \/ dmem'[d] # dmem[d]

\* this step is a step of thread_func on thread t for device d
WorkerStep(t, d) ==
    /\ t < nthreads
    /\ wdev'[t] = d
    /\ wpc'[t] # wpc[t] \/ devStarted'[d] # devStarted[d]

\* what one step of the program may write
C11_Frame ==
    /\ \A d \in Active : inout'[d] # inout[d] => pc \in {"seed", "fin_memcpy"}
    /\ InLoop =>
         /\ \A t \in Tiles :
              inout'[t] # inout[t] => pc = "cpu" /\ t \in {ndevices, ndevices + 1}
         /\ \A d \in Devices :
              DevChanged(d) =>
                  /\ \E t \in Threads : WorkerStep(t, d)
                  /\ \A e \in Devices : DevChanged(e) => e = d
                  /\ UNCHANGED << inout, control, input >>
         /\ pc = "cpu" => UNCHANGED << cfgVars, dmem >>

\* C11: during the step loop device workers leave every host tile unchanged
\* (tiles 0..D-1 change only when seeded and in the release loop), a
\* thread_func step writes only its own config and device buffers, and the
\* host step writes only tiles D and D+1.
C11_Partition == [][C11_Frame]_vars

\* C11 witness: after the first tick device 0 has completed a step, its host
\* tile still holds the seed and the host step has written its own tile.
C11_Witness ==
    /\ pc = "check"
    /\ ndevices = 2
    /\ cfg_step[0] = 1 /\ cfg_step[1] = 1
    /\ inout[0] = seed0
    /\ inout[cpuOut] # seed0

\* the last swap has been done and main is in the release loop or after it
AfterLastSwap ==
    pc \in {"fin_push", "fin_memcpy", "fin_free_in", "fin_free_out",
            "fin_destroy", "validate", "finish"}

\* C12: after nticks >= 1 successful ticks and the last swap, control
\* designates the tile the last pattern2d_cpu call wrote and input the tile
\* that call read; for nticks = 0 control designates a tile equal to the seed.
C12_ControlIsLatest ==
    AfterLastSwap =>
        IF nticks >= 1
        THEN /\ control = cpuOut
             /\ input = cpuIn
             /\ inout[control] = pattern2d(inout[input])
        ELSE /\ cpuOut = Unset
             /\ inout[control] = seed0

\* C12 witness: the comparison is about to run after an even number of
\* ticks, control on the tile written last.
C12_Witness ==
    /\ pc = "validate"
    /\ nticks = 2
    /\ hostFinished = 2
    /\ control = cpuOut

\* the discovery line reported no device
NoDevice == out # << >> /\ out[1] = Line("found", 0, 0, 0, 0)

\* C13: when the device count is 0 the driver prints exactly the discovery
\* line and exits with status 0: no threads-used line, no host workspace, no
\* context, no tick, no release and no comparison.
C13_ZeroDevices ==
    NoDevice =>
        /\ pc = "exit"
        /\ ret = 0
        /\ out = << Line("found", 0, 0, 0, 0) >>
        /\ \A t \in Tiles : inout[t] = Undef
        /\ \A d \in Devices : /\ ncreate[d] = 0
                              /\ nalloc[d][0] = 0 /\ nalloc[d][1] = 0
                              /\ ndestroy[d] = 0
                              /\ devStarted[d] = 0
        /\ hostStarted = 0
        /\ tick = 0

\* C13 witness: the program has exited after finding no device.
C13_Witness ==
    /\ pc = "exit"
    /\ ret = 0
    /\ ndevices = 0
    /\ Len(out) = 1
    /\ NoDevice

\* C14: after the workspace has been seeded and replicated, and until the
\* first host step writes, every tile 0 .. D+1 (control is tile D, input is
\* tile D+1) is a copy of the seeded tile 0; no tile beyond D+1 is ever
\* written.
C14_Replicated ==
    /\ (seed0 # Undef /\ hostFinished = 0) =>
           /\ \A t \in Tiles : t <= ndevices + 1 => inout[t] = seed0
    /\ \A t \in Tiles : (ndevices >= 1 /\ t > ndevices + 1) => inout[t] = Undef
    /\ (pc = "loop" /\ tick = 0) =>
           /\ control = ndevices /\ input = ndevices + 1
           /\ inout[control] = seed0 /\ inout[input] = seed0

\* C14 witness: one device initialized; tiles 0, 1 and 2 hold the seed and
\* the tile after them is untouched.
C14_Witness ==
    /\ pc = "loop"
    /\ tick = 0
    /\ ndevices = 1
    /\ seed0 # Undef
    /\ inout[0] = seed0 /\ inout[1] = seed0 /\ inout[2] = seed0
    /\ inout[3] = Undef

\* the program has exited with status 0 after running on at least one device
Succeeded == pc = "exit" /\ ret = 0 /\ ndevices >= 1

\* C15: in a successful run stdout holds, in this order: the discovery line,
\* the threads-used line, "initialized" for d = 0..D-1 in index order, for
\* each tick k = 1..T one "completed step k" line per device (all lines of
\* tick k before any line of tick k+1), "deinitialized" for d = 0..D-1 in
\* index order, and one "result abs max diff" line per device in index order.
C15_StdoutOrder ==
    Succeeded =>
        LET D == ndevices
            T == nticks
            steps == 2 + D
            deinit == 2 + D + D * T
            diffs == 2 + D + D * T + D
        IN /\ Len(out) = diffs + D
           /\ out[1] = Line("found", D, 0, 0, 0)
           /\ out[2] = Line("threads", nthreads, 0, 0, 0)
           /\ \A d \in Active : out[3 + d] = Line("init", d, 0, 0, 0)
           /\ \A k \in 1 .. T :
                {out[steps + (k - 1) * D + j] : j \in 1 .. D}
                    = {Line("step", d, k, 0, 0) : d \in Active}
           /\ \A d \in Active : out[deinit + 1 + d] = Line("deinit", d, 0, 0, 0)
           /\ \A d \in Active : /\ out[diffs + 1 + d][1] = "diff"
                                /\ out[diffs + 1 + d][2] = d

\* C15 witness: a successful run of two devices, two threads and two ticks
\* in which device 1 printed its first step line before device 0.
C15_Witness ==
    /\ Succeeded
    /\ ndevices = 2 /\ nticks = 2 /\ nthreads = 2
    /\ out[5] = Line("step", 1, 1, 0, 0)
    /\ out[6] = Line("step", 0, 1, 0, 0)

\* C16: if pattern2d_gpu returns non-zero on device d in tick k, the line
\* "Device d completed step k" is never printed, and no "completed step"
\* line of any device is printed twice.
C16_NoStepLineAfterKernelFailure ==
    /\ \A p \in kfail : Line("step", p[1], p[2], 0, 0) \notin Range(out)
    /\ \A i, j \in DOMAIN out :
         (out[i][1] = "step" /\ out[i] = out[j]) => i = j

\* C16 witness: the kernel failed on one device in tick 2, the other device
\* printed its line for step 2, and the program has exited.
C16_Witness ==
    /\ pc = "exit"
    /\ \E p \in kfail :
         /\ p[2] = 2
         /\ \E e \in Active : e # p[1] /\ Line("step", e, 2, 0, 0) \in Range(out)

\* both buffers of device d: successful cudaFree calls on in_dev and out_dev
Freed(d) == << nfree[d][cfg_in[d]], nfree[d][cfg_out[d]] >>

\* C17 (amended): for each device d the release loop performs, in this order:
\* bind ctx_d; copy in_dev into host tile d; free in_dev; free out_dev;
\* destroy ctx_d, which is still current on the calling thread when
\* cuCtxDestroy is called (there is no unbind before it).  After the destroy
\* ctx_d is on no thread's stack and nothing uses ctx_d or its buffers.
C17_ReleaseOrder ==
    /\ pc \in {"fin_memcpy", "fin_free_in", "fin_free_out", "fin_destroy"} =>
         /\ Current(0) = CtxOf(idevice)
         /\ ndestroy[idevice] = 0
    /\ pc = "fin_memcpy" => Freed(idevice) = << 0, 0 >>
    /\ pc = "fin_free_in" =>
         /\ inout[idevice] = dmem[idevice][cfg_in[idevice]]
         /\ Freed(idevice) = << 0, 0 >>
    /\ pc = "fin_free_out" => Freed(idevice) = << 1, 0 >>
    /\ pc = "fin_destroy" => Freed(idevice) = << 1, 1 >>
    /\ \A d \in Active :
         ndestroy[d] >= 1 =>
             /\ ndestroy[d] = 1
             /\ Freed(d) = << 1, 1 >>
             /\ \A t \in Threads : ~OnStack(t, CtxOf(d))
             /\ Line("deinit", d, 0, 0, 0) \in Range(out)
             /\ dsched[d] = "done"
             /\ pc \in {"fin_push", "fin_memcpy", "fin_free_in",
                        "fin_free_out", "fin_destroy"} => idevice > d

\* C17 witness: both devices released, the comparison about to start.
C17_Witness ==
    /\ pc = "validate"
    /\ ndevices = 2
    /\ ndestroy[0] = 1 /\ ndestroy[1] = 1
    /\ stack[0] = << >>

\* C17 as stated: ctx_d is unbound from the calling thread before it is
\* destroyed.
C17_UnboundBeforeDestroy ==
    pc = "fin_destroy" =>
        \A t \in Threads : ~OnStack(t, cfg_ctx[idevice])

\* ---- the comparison on arbitrary tiles --------------------------------------

\* The stencil primitives are external: at the comparison the control tile and
\* a device tile may differ in any cell.  InitV starts main at line 297 with
\* a uniform control tile and any device tile over the values 0 .. 2.
CellVals == 0 .. 2

InitV ==
    /\ pc = "validate"
    /\ ret = Unset
    /\ nticks = 0
    /\ ndevices \in 1 .. MaxDevices
    /\ nthreads = 1
    /\ idevice = 0
    /\ tick = 0
    /\ control = ndevices
    /\ input = ndevices + 1
    /\ \E cv \in CellVals :
         \E dt \in [Cells -> CellVals] :
             inout = [t \in Tiles |-> IF t < ndevices THEN dt
                                      ELSE IF t <= ndevices + 1
                                           THEN [k \in Cells |-> cv]
                                           ELSE Undef]
    /\ cfg_step = [d \in Devices |-> 0]
    /\ cfg_status = [d \in Devices |-> 0]
    /\ cfg_ctx = [d \in Devices |-> CtxOf(d)]
    /\ cfg_in = [d \in Devices |-> 0]
    /\ cfg_out = [d \in Devices |-> 1]
    /\ dmem = [d \in Devices |-> [s \in 0 .. 1 |-> Undef]]
    /\ nalloc = [d \in Devices |-> [s \in 0 .. 1 |-> IF d < ndevices THEN 1 ELSE 0]]
    /\ nfree = nalloc
    /\ ncreate = [d \in Devices |-> IF d < ndevices THEN 1 ELSE 0]
    /\ ndestroy = ncreate
    /\ stack = [t \in Threads |-> << >>]
    /\ wpc = [t \in Threads |-> "idle"]
    /\ wdev = [t \in Threads |-> 0]
    /\ dsched = [d \in Devices |-> "done"]
    /\ secs = {}
    /\ out = << >>
    /\ seed0 = Undef
    /\ devStarted = [d \in Devices |-> 0]
    /\ devFinished = [d \in Devices |-> 0]
    /\ hostStarted = 0
    /\ hostFinished = 0
    /\ stepAtCall = [d \in Devices |-> 0]
    /\ lastRet = [d \in Devices |-> 0]
    /\ lastFail = [d \in Devices |-> "none"]
    /\ failedTick = 0
    /\ kfail = {}
    /\ cpuIn = Unset
    /\ cpuOut = Unset

NextV == Validate \/ Finish

SpecV == InitV /\ [][NextV]_vars

\* cell (i, j) of a tile, counted from 1
CellAt(i, j) == i + j * nx + 1

\* C18: for each device the reported value is the maximum over all cells of
\* the absolute difference between the control tile and the device tile, the
\* reported (i, j) is a cell attaining it, and no cell with a lower row-major
\* index i + j * nx attains it.
C18_MaxDiffReported ==
    \A n \in DOMAIN out :
        out[n][1] = "diff" =>
            LET c == inout[control]
                t == inout[out[n][2]]
                m == out[n][3]
                i == out[n][4]
                j == out[n][5]
            IN /\ i \in 0 .. (nx - 1)
               /\ j \in 0 .. (ny - 1)
               /\ Abs(c[CellAt(i, j)] - t[CellAt(i, j)]) = m
               /\ \A k \in Cells : Abs(c[k] - t[k]) <= m
               /\ \A k \in Cells : k < CellAt(i, j) => Abs(c[k] - t[k]) < m

\* C18 witness: the largest difference is attained in a cell of row 0 and
\* again in row 1, with smaller differences before and between them; the
\* first of the two is reported.
C18_Witness ==
    /\ out # << >>
    /\ out[1] = Line("diff", 0, 2, 1, 0)
    /\ Abs(inout[control][CellAt(0, 0)] - inout[0][CellAt(0, 0)]) = 1
    /\ Abs(inout[control][CellAt(0, 1)] - inout[0][CellAt(0, 1)]) = 2

\* C19: at the final swap after nticks >= 1 ticks of either parity, control
\* designates the tile the last pattern2d_cpu call read and input the tile it
\* wrote, and the two tiles differ: without the final swap the comparison
\* would read a stale tile.
C19_FinalSwapNeeded ==
    (pc = "lastswap" /\ nticks >= 1) =>
        /\ hostFinished = nticks
        /\ control = cpuIn
        /\ input = cpuOut
        /\ control # cpuOut
        /\ inout[input] = pattern2d(inout[control])
        /\ inout[input] # inout[control]

\* C19 witness: the final swap is about to run after two ticks, control on
\* the tile the second pattern2d_cpu call read.
C19_Witness ==
    /\ pc = "lastswap"
    /\ nticks = 2
    /\ hostFinished = 2
    /\ control = cpuIn

\* C19 as stated: for every even nticks >= 2, control designates the tile
\* written last before the final swap is applied.
C19_Original ==
    (pc = "lastswap" /\ nticks >= 2 /\ nticks % 2 = 0) => control = cpuOut

\* C20: config[d].ctx designates the context created for device d, in every
\* state after the creation, whatever thread served the device and whatever
\* contexts earlier failed calls left on that thread's stack.
C20_CtxIsOwn ==
    \A d \in Active : ncreate[d] > 0 => cfg_ctx[d] = CtxOf(d)

\* C20 witness: a thread whose stack still holds the context of device e,
\* left by a failed kernel, has then completed a call for device d.
C20_Witness ==
    \E t \in Threads : \E d \in Active : \E e \in Active :
        /\ d # e
        /\ wpc[t] = "idle"
        /\ wdev[t] = d
        /\ dsched[d] = "done"
        /\ lastRet[d] = 0
        /\ << e, devStarted[e] >> \in kfail
        /\ stack[t] = << CtxOf(e) >>
        /\ cfg_ctx[d] = CtxOf(d)

====
